---- MODULE Spec2Model ----
(***************************************************************************)
(* Model of omni_httpd's exported SQL functions (omni_httpd.c):            *)
(*   http_response                    builds a response record             *)
(*   handlers_query_validity_trigger  validates a handler's query          *)
(*   reload_configuration             signals a configuration reload       *)
(***************************************************************************)
EXTENDS Integers, Sequences, FiniteSets, TLC

VARIABLES
    pc,               \* position of the http_response call: "call" | "done"
    fcinfo,           \* arguments of the http_response call
    response,         \* outcome of the http_response call
    handlers,         \* the handler table: id -> row (or an absent row)
    trigger,          \* the last handlers_query_validity_trigger invocation
    semaphore,        \* the shared configuration reload semaphore (u32)
    pendingNotifies,  \* channels notified by the open transaction
    listening,        \* whether the supervisor listens on the channel
    received,         \* notifications the supervisor received
    lost,             \* notifications committed while nobody listened
    reloads,          \* invocations of reload_configuration so far
    reload_result,    \* what the last reload_configuration returned
    last_sample       \* semaphore value the supervisor sampled last

vars == <<pc, fcinfo, response, handlers, trigger, semaphore, pendingNotifies,
          listening, received, lost, reloads, reload_result, last_sample>>

response_vars == <<pc, fcinfo, response>>
trigger_vars  == <<handlers, trigger>>
reload_vars   == <<semaphore, pendingNotifies, listening, received, lost,
                   reloads, reload_result, last_sample>>

----------------------------------------------------------------------------
(* Bounds *)

MaxHeaders == 2      \* longest caller-supplied header array

----------------------------------------------------------------------------
(* Integers of the C code *)

INT_MAX == 2147483647
INT_MIN == -INT_MAX - 1

\* common/int.h: true when a + b does not fit a signed 32-bit integer
pg_add_s32_overflow(a, b) ==
    IF b >= 0 THEN a > INT_MAX - b ELSE a < INT_MIN - b

----------------------------------------------------------------------------
(* Strings are sequences of characters; a C string literal ends with NUL *)

NUL == "NUL"

content_type_name == <<"c","o","n","t","e","n","t","-","t","y","p","e">>
text_plain        == "text/plain; charset=utf-8"
octet_stream      == "application/octet-stream"
text_json         == "text/json"

\* s[i] of a NUL-terminated C string literal
CharAt(s, i) == IF i <= Len(s) THEN s[i] ELSE NUL

tolower_identity(c) == c

tolower(c) ==
    CASE c = "C" -> "c" [] c = "O" -> "o" [] c = "N" -> "n" [] c = "T" -> "t"
      [] c = "E" -> "e" [] c = "Y" -> "y" [] c = "P" -> "p" [] c = "X" -> "x"
      [] OTHER -> c

\* strncasecmp(s1, s2, n) where s1 holds exactly n characters, none of them
\* NUL (text data), and s2 is a C string literal; 0 when equal, else nonzero
RECURSIVE strncasecmp_from(_, _, _, _)
strncasecmp_from(s1, s2, n, i) ==
    IF i > n THEN 0
    ELSE LET c1 == tolower(s1[i])
             c2 == tolower(CharAt(s2, i))
         IN  IF c1 # c2 THEN 1
             ELSE IF c1 = NUL THEN 0
             ELSE strncasecmp_from(s1, s2, n, i + 1)

strncasecmp(s1, s2, n) == strncasecmp_from(s1, s2, n, 1)

----------------------------------------------------------------------------
(* Types of the body argument *)

TEXTOID    == "text"
VARCHAROID == "varchar"
CHAROID    == "char"
BYTEAOID   == "bytea"
JSONOID    == "json"
JSONBOID   == "jsonb"
INT4OID    == "int4"

BodyTypes == {TEXTOID, VARCHAROID, CHAROID, BYTEAOID, JSONOID, JSONBOID, INT4OID}

----------------------------------------------------------------------------
(* Datums *)

\* http_header composite values and the NULL array element
Header(name, value, append) ==
    [isnull |-> FALSE, name |-> [isnull |-> FALSE, str |-> name],
     value |-> value, append |-> append]

NullNameHeader ==
    [isnull |-> FALSE, name |-> [isnull |-> TRUE, str |-> <<>>],
     value |-> "v", append |-> FALSE]

NullElement ==
    [isnull |-> TRUE, name |-> [isnull |-> TRUE, str |-> <<>>],
     value |-> "", append |-> FALSE]

\* A headers Datum: the zero Datum, or a 1-dim array (ndim = 0 when empty)
ZeroDatum == [zero |-> TRUE, ndim |-> 0, lb |-> 0, elems |-> <<>>]

Array(lb, elems) ==
    IF Len(elems) = 0
    THEN [zero |-> FALSE, ndim |-> 0, lb |-> 0, elems |-> <<>>]
    ELSE [zero |-> FALSE, ndim |-> 1, lb |-> lb, elems |-> elems]

\* A body Datum
Text(chars)  == [rep |-> "text",  chars |-> chars, items |-> <<>>]
Jsonb(items) == [rep |-> "jsonb", chars |-> <<>>,  items |-> items]
Int4(digits) == [rep |-> "int4",  chars |-> digits, items |-> <<>>]

----------------------------------------------------------------------------
(* PostgreSQL helpers used by http_response *)

\* JsonbToCString: the text form of a jsonb array of numbers, "[1, 2]"
RECURSIVE JsonbItemsToCString(_)
JsonbItemsToCString(items) ==
    IF Len(items) = 0 THEN <<>>
    ELSE IF Len(items) = 1 THEN <<items[1]>>
    ELSE <<items[1], ",", " ">> \o JsonbItemsToCString(Tail(items))

JsonbToCString(jb) == <<"[">> \o JsonbItemsToCString(jb.items) \o <<"]">>

cstring_to_text(chars) == Text(chars)

\* array_set_element on a 1-dim array: an empty array becomes a one-element
\* array whose lower bound is the subscript; a subscript inside the bounds
\* replaces; the subscript just past the upper bound extends the array
array_set_element(array, indx, elem) ==
    IF array.ndim = 0
    THEN [zero |-> FALSE, ndim |-> 1, lb |-> indx, elems |-> <<elem>>]
    ELSE IF indx >= array.lb /\ indx < array.lb + Len(array.elems)
    THEN [array EXCEPT !.elems[indx - array.lb + 1] = elem]
    ELSE IF indx = array.lb + Len(array.elems)
    THEN [array EXCEPT !.elems = Append(array.elems, elem)]
    ELSE [array EXCEPT !.lb = indx, !.elems = <<elem>> \o array.elems]

----------------------------------------------------------------------------
(* add_header: omni_httpd.c 116-148 *)

Ok(datum)  == [err |-> "", datum |-> datum]
Error(msg) == [err |-> msg, datum |-> ZeroDatum]

\* eah->lbound[0] and eah->dims[0]: an array of zero dimensions stores no
\* bounds, both pointers address the word after the array header (junk)
lbound0(headers, junk) == IF headers.ndim = 0 THEN junk ELSE headers.lb
dims0(headers, junk)   == IF headers.ndim = 0 THEN junk ELSE Len(headers.elems)

\* the subscript the new header is stored at
new_index(lb, dimv) == lb + dimv

add_header(headers, name, value, append, junk) ==
    LET header == Header(name, value, append)
    IN  IF headers.zero
        THEN Ok(Array(1, <<header>>))
        ELSE LET lb   == lbound0(headers, junk)
                 dimv == dims0(headers, junk)
             IN  IF pg_add_s32_overflow(lb, dimv)
                 THEN Error("integer out of range")
                 ELSE Ok(array_set_element(headers, new_index(lb, dimv), header))

----------------------------------------------------------------------------
(* http_response: omni_httpd.c 152-255 *)

default_status_zero(status) == status.val

\* lines 159-162
response_status(status) == IF status.isnull THEN 200 ELSE status.val

\* lines 164-169
headers_datum(headers) == IF headers.isnull THEN ZeroDatum ELSE headers.val

body_always_present(body) == TRUE

\* line 179
body_present(body) == ~body.isnull

\* lines 192-205: one iteration's test of an array element
is_content_type(elem) ==
    /\ ~elem.isnull
    /\ ~elem.name.isnull
    /\ strncasecmp(elem.name.str, content_type_name, Len(elem.name.str)) = 0

\* lines 183-207
has_content_type(headers) ==
    /\ ~headers.zero
    /\ \E i \in 1..Len(headers.elems) : is_content_type(headers.elems[i])

switch_arm_bytea_default(body_element_type) ==
    CASE body_element_type \in {TEXTOID, VARCHAROID, CHAROID} -> "text"
      [] body_element_type = JSONBOID -> "jsonb"
      [] body_element_type = JSONOID  -> "json"
      [] OTHER -> "bytea"

\* lines 211-236: the arm of the switch taken for a body type
switch_arm(body_element_type) ==
    CASE body_element_type \in {TEXTOID, VARCHAROID, CHAROID} -> "text"
      [] body_element_type = BYTEAOID -> "bytea"
      [] body_element_type = JSONBOID -> "jsonb"
      [] body_element_type = JSONOID  -> "json"
      [] OTHER -> "default"

\* lines 215-218, 221-224, 231-234
infer_content_type(headers, has_ct, value, junk) ==
    IF ~has_ct
    THEN add_header(headers, content_type_name, value, FALSE, junk)
    ELSE Ok(headers)

\* lines 243-245: heap_form_tuple of the three values and their null flags
form_response(status, headers, body_isnull, body) ==
    [err |-> "", status |-> status, headers |-> headers, body |-> body,
     isnull |-> [status |-> FALSE, headers |-> headers.zero, body |-> body_isnull]]

NoResponse(msg) ==
    [err |-> msg, status |-> 0, headers |-> ZeroDatum, body |-> Text(<<>>),
     isnull |-> [status |-> TRUE, headers |-> TRUE, body |-> TRUE]]

http_response(args, junk) ==
    LET status  == response_status(args.status)
        headers == headers_datum(args.headers)
    IN  IF ~body_present(args.body)
        THEN form_response(status, headers, args.body.isnull, args.body.val)
        ELSE
        LET has_ct == has_content_type(headers)
            arm    == switch_arm(args.body.type)
            \* lines 227-229: only the jsonb arm replaces the body
            body   == IF arm = "jsonb"
                      THEN cstring_to_text(JsonbToCString(args.body.val))
                      ELSE args.body.val
            added  == CASE arm = "text"  -> infer_content_type(headers, has_ct, text_plain, junk)
                        [] arm = "bytea" -> infer_content_type(headers, has_ct, octet_stream, junk)
                        [] arm \in {"jsonb", "json"} ->
                                            infer_content_type(headers, has_ct, text_json, junk)
                        [] OTHER -> Error("Can't (yet) cast to bytea")
        IN  IF added.err # ""
            THEN NoResponse(added.err)
            ELSE form_response(status, added.datum, args.body.isnull, body)

----------------------------------------------------------------------------
(* The calls of http_response that are explored *)

HeaderNames ==
    { <<>>,
      <<"c","o","n","t","e","n","t">>,
      <<"c","o","n","t","e","n","t","-","t","y","p","e">>,
      <<"C","o","n","t","e","n","t","-","T","y","p","e">>,
      <<"c","o","n","t","e","n","t","-","t","y","p","e","s">>,
      <<"x","-","i","d">> }

HeaderElements ==
    {Header(n, "v", FALSE) : n \in HeaderNames}
        \cup {Header(<<"x","-","i","d">>, "w", TRUE), NullNameHeader, NullElement}

SeqsUpTo(S, n) == UNION {[1..k -> S] : k \in 0..n}

\* an array's upper bound lb + dim - 1 is at most INT_MAX
LowerBounds(n) == {1, INT_MAX - n + 1}

HeaderArrays ==
    {Array(1, <<>>)} \cup
    UNION {{Array(lb, e) : lb \in LowerBounds(Len(e))} :
               e \in SeqsUpTo(HeaderElements, MaxHeaders) \ {<<>>}}

HeadersArgs ==
    {[isnull |-> TRUE, val |-> ZeroDatum]} \cup
    {[isnull |-> FALSE, val |-> a] : a \in HeaderArrays}

StatusArgs ==
    {[isnull |-> TRUE, val |-> 0], [isnull |-> FALSE, val |-> 0],
     [isnull |-> FALSE, val |-> 404]}

JsonTexts ==
    { <<"[","]">>,
      <<"[","1",",","2","]">>,
      <<"[","1",","," ","2","]">>,
      <<"["," ","1"," ","]">> }

JsonbValues == { <<>>, <<"1">>, <<"1","2">> }

BodyValues(type) ==
    CASE type \in {TEXTOID, VARCHAROID, CHAROID} -> {Text(<<"h","i">>)}
      [] type = BYTEAOID -> {Text(<<"\\x00">>)}
      [] type = JSONOID  -> {Text(t) : t \in JsonTexts}
      [] type = JSONBOID -> {Jsonb(v) : v \in JsonbValues}
      [] OTHER -> {Int4(<<"7">>)}

BodyArgs ==
    {[isnull |-> TRUE, type |-> t, val |-> Text(<<>>)] : t \in BodyTypes} \cup
    UNION {{[isnull |-> FALSE, type |-> t, val |-> v] : v \in BodyValues(t)} :
               t \in BodyTypes}

\* values the word after a zero-dimensional array's header can hold
JunkWords == {0, 16, 2139062142}

Args == [status : StatusArgs, headers : HeadersArgs, body : BodyArgs]

----------------------------------------------------------------------------
(* Initial values of the three parts of the state *)

ResponseIdle ==
    /\ pc = "idle"
    /\ fcinfo = [status  |-> [isnull |-> TRUE, val |-> 0],
                 headers |-> [isnull |-> TRUE, val |-> ZeroDatum],
                 body    |-> [isnull |-> TRUE, type |-> TEXTOID, val |-> Text(<<>>)]]
    /\ response = NoResponse("pending")

\* the call of http_response: evaluates the function on its arguments
HttpResponseCall ==
    /\ pc = "call"
    /\ \E junk \in JunkWords : response' = http_response(fcinfo, junk)
    /\ pc' = "done"
    /\ UNCHANGED fcinfo

----------------------------------------------------------------------------
(* omni_sql: parsing and static validation of a query *)

MaxHandlers == 2     \* rows of the handler table

Statement(refs) == [refs |-> refs, ctes |-> {}]

\* omni_sql_parse_statement: the statements of a query text, or a syntax error
omni_sql_parse_statement(text) ==
    CASE text = "select * from request" ->
             [err |-> "", stmts |-> <<Statement({"request"})>>]
      [] text = "select 1" ->
             [err |-> "", stmts |-> <<Statement({})>>]
      [] text = "select * from missing" ->
             [err |-> "", stmts |-> <<Statement({"missing"})>>]
      [] text = "select 1; select 2" ->
             [err |-> "", stmts |-> <<Statement({}), Statement({})>>]
      [] text = "" ->
             [err |-> "", stmts |-> <<>>]
      [] OTHER ->
             [err |-> "syntax error", stmts |-> <<>>]

\* omni_sql_add_cte: adds the named CTE to the first statement
omni_sql_add_cte(stmts, cte_name) ==
    [stmts EXCEPT ![1].ctes = @ \cup {cte_name}]

\* omni_sql_is_valid: every relation a statement names resolves
omni_sql_is_valid(stmts) ==
    \A i \in 1..Len(stmts) : stmts[i].refs \subseteq stmts[i].ctes

list_length(list) == Len(list)

QueryTexts ==
    {"select * from request", "select 1", "select * from missing",
     "select 1; select 2", "", "selec"}

Queries ==
    {[isnull |-> TRUE, text |-> ""]} \cup
    {[isnull |-> FALSE, text |-> t] : t \in QueryTexts}

----------------------------------------------------------------------------
(* handlers_query_validity_trigger: omni_httpd.c 259-284 *)

HandlerIds == 1..MaxHandlers

Row(id, query) == [present |-> TRUE, id |-> id, query |-> query]
NoRow == [present |-> FALSE, id |-> 0, query |-> [isnull |-> TRUE, text |-> ""]]

Accept(tuple) == [err |-> "", tuple |-> tuple]
Reject(msg)   == [err |-> msg, tuple |-> NoRow]

at_least_one_statement(stmts) == list_length(stmts) >= 1

\* line 269
single_statement(stmts) == list_length(stmts) = 1

\* the row the trigger reads its query from and returns (lines 264, 280)
validated_tuple(trigger_data) == trigger_data.tg_trigtuple

handlers_query_validity_trigger(called_as_trigger, trigger_data) ==
    IF called_as_trigger
    THEN LET query == validated_tuple(trigger_data).query
         IN  IF query.isnull
             THEN Reject("query can't be null")
             ELSE LET parsed == omni_sql_parse_statement(query.text)
                  IN  IF parsed.err # ""
                      THEN Reject(parsed.err)
                      ELSE IF ~single_statement(parsed.stmts)
                      THEN Reject("query can only contain one statement")
                      ELSE IF ~omni_sql_is_valid(omni_sql_add_cte(parsed.stmts, "request"))
                      THEN Reject("invalid query")
                      ELSE Accept(validated_tuple(trigger_data))
    ELSE Reject("can only be called as a trigger")

NoTriggerData ==
    [event |-> "NONE", timing |-> "NONE", tg_trigtuple |-> NoRow, tg_newtuple |-> NoRow]

TriggerIdle ==
    /\ handlers = [id \in HandlerIds |-> NoRow]
    /\ trigger = [called |-> FALSE, as_trigger |-> FALSE, data |-> NoTriggerData,
                  result |-> Reject("pending"), before |-> [id \in HandlerIds |-> NoRow]]

\* The row a write leaves in the table when its trigger raised no error: a
\* BEFORE row trigger's returned tuple is what is stored, an AFTER row
\* trigger's return value is ignored
StoredRow(timing, candidate, result) ==
    IF timing = "BEFORE" THEN result.tuple ELSE candidate

\* A write of one row, firing the trigger; an error aborts the write
FireTrigger(id, data, candidate) ==
    LET result == handlers_query_validity_trigger(TRUE, data)
    IN  /\ trigger' = [called |-> TRUE, as_trigger |-> TRUE, data |-> data,
                       result |-> result, before |-> handlers]
        /\ handlers' = IF result.err # ""
                       THEN handlers
                       ELSE [handlers EXCEPT ![id] = StoredRow(data.timing, candidate, result)]

\* INSERT: tg_trigtuple is the row being inserted
InsertHandler ==
    \E id \in HandlerIds, query \in Queries, timing \in {"BEFORE", "AFTER"} :
        /\ ~handlers[id].present
        /\ FireTrigger(id, [event |-> "INSERT", timing |-> timing,
                            tg_trigtuple |-> Row(id, query), tg_newtuple |-> NoRow],
                       Row(id, query))
        /\ UNCHANGED <<response_vars, reload_vars>>

\* UPDATE: tg_trigtuple is the row being replaced, tg_newtuple the new row
UpdateHandler ==
    \E id \in HandlerIds, query \in Queries, timing \in {"BEFORE", "AFTER"} :
        /\ handlers[id].present
        /\ FireTrigger(id, [event |-> "UPDATE", timing |-> timing,
                            tg_trigtuple |-> handlers[id], tg_newtuple |-> Row(id, query)],
                       Row(id, query))
        /\ UNCHANGED <<response_vars, reload_vars>>

\* select handlers_query_validity_trigger(): not called as a trigger
DirectValidityCall ==
    /\ trigger' = [called |-> TRUE, as_trigger |-> FALSE, data |-> NoTriggerData,
                   result |-> handlers_query_validity_trigger(FALSE, NoTriggerData),
                   before |-> handlers]
    /\ UNCHANGED <<handlers, response_vars, reload_vars>>

----------------------------------------------------------------------------
(* The reload semaphore and reload_configuration: omni_httpd.c 69-105 *)

MaxReloads == 4      \* invocations of reload_configuration explored

OMNI_HTTPD_CONFIGURATION_NOTIFY_CHANNEL == "omni_httpd_configuration"

\* init_semaphore, line 69
init_semaphore == 0

Async_Notify_dropped(pending, channel) == pending

\* Async_Notify: queued once per channel and payload in a transaction
Async_Notify(pending, channel) == pending \cup {channel}

ReloadIdle ==
    /\ semaphore = init_semaphore
    /\ pendingNotifies = {}
    /\ listening = TRUE
    /\ received = 0
    /\ lost = 0
    /\ reloads = 0
    /\ reload_result = "none"
    /\ last_sample = init_semaphore

\* reload_configuration, lines 97-105: posts the notification and returns
reload_configuration(called_as_trigger) ==
    /\ reloads < MaxReloads
    /\ pendingNotifies' = Async_Notify(pendingNotifies, OMNI_HTTPD_CONFIGURATION_NOTIFY_CHANNEL)
    /\ reload_result' = IF called_as_trigger THEN "tg_newtuple" ELSE "true"
    /\ reloads' = reloads + 1
    /\ UNCHANGED <<semaphore, listening, received, lost, last_sample>>
    /\ UNCHANGED <<response_vars, trigger_vars>>

ReloadAsTrigger == reload_configuration(TRUE)
ReloadDirect    == reload_configuration(FALSE)

\* commit of the notifying transaction: listeners get the notification
Commit ==
    /\ pendingNotifies # {}
    /\ pendingNotifies' = {}
    /\ IF listening
       THEN received' = received + 1 /\ UNCHANGED lost
       ELSE lost' = lost + 1 /\ UNCHANGED received
    /\ UNCHANGED <<semaphore, listening, reloads, reload_result, last_sample>>
    /\ UNCHANGED <<response_vars, trigger_vars>>

\* the supervisor's listener detaches and re-attaches
ToggleListener ==
    /\ listening' = ~listening
    /\ UNCHANGED <<semaphore, pendingNotifies, received, lost, reloads,
                   reload_result, last_sample>>
    /\ UNCHANGED <<response_vars, trigger_vars>>

\* the supervisor samples the semaphore
SupervisorSample ==
    /\ last_sample' = semaphore
    /\ UNCHANGED <<semaphore, pendingNotifies, listening, received, lost,
                   reloads, reload_result>>
    /\ UNCHANGED <<response_vars, trigger_vars>>

----------------------------------------------------------------------------
(* Specifications *)

InitResponse ==
    /\ pc = "call"
    /\ fcinfo \in Args
    /\ response = NoResponse("pending")
    /\ TriggerIdle
    /\ ReloadIdle

NextResponse == HttpResponseCall /\ UNCHANGED <<trigger_vars, reload_vars>>

SpecResponse == InitResponse /\ [][NextResponse]_vars

InitTrigger == ResponseIdle /\ TriggerIdle /\ ReloadIdle

NextTrigger == InsertHandler \/ UpdateHandler \/ DirectValidityCall

SpecTrigger == InitTrigger /\ [][NextTrigger]_vars

InitReload == ResponseIdle /\ TriggerIdle /\ ReloadIdle

NextReload ==
    \/ ReloadAsTrigger
    \/ ReloadDirect
    \/ Commit
    \/ ToggleListener
    \/ SupervisorSample

SpecReload == InitReload /\ [][NextReload]_vars

----------------------------------------------------------------------------
(* Vocabulary of the properties *)

FoldCase(c) ==
    LET upper == <<"C", "O", "N", "T", "E", "Y", "P">>
        lower == <<"c", "o", "n", "t", "e", "y", "p">>
    IN  IF \E k \in 1..Len(upper) : upper[k] = c
        THEN lower[CHOOSE k \in 1..Len(upper) : upper[k] = c]
        ELSE c

\* the header's name equals content-type, ignoring case
NamedContentType(elem) ==
    /\ ~elem.isnull
    /\ ~elem.name.isnull
    /\ Len(elem.name.str) = Len(content_type_name)
    /\ \A i \in 1..Len(content_type_name) :
           FoldCase(elem.name.str[i]) = content_type_name[i]

Returned == pc = "done" /\ response.err = ""
Failed   == pc = "done" /\ response.err # ""

CallerElems == IF fcinfo.headers.isnull THEN <<>> ELSE fcinfo.headers.val.elems
ResultElems == IF response.isnull.headers THEN <<>> ELSE response.headers.elems

CallerHasContentType ==
    \E i \in 1..Len(CallerElems) : NamedContentType(CallerElems[i])

ContentTypeCount(elems) ==
    Cardinality({i \in 1..Len(elems) : NamedContentType(elems[i])})

SupportedBody == fcinfo.body.type \in
    {TEXTOID, VARCHAROID, CHAROID, BYTEAOID, JSONOID, JSONBOID}

InferredValue ==
    CASE fcinfo.body.type \in {TEXTOID, VARCHAROID, CHAROID} -> text_plain
      [] fcinfo.body.type = BYTEAOID -> octet_stream
      [] OTHER -> text_json

\* the value a json text denotes, and the canonical text of a JSON body
JsonParse(chars) == SelectSeq(chars, LAMBDA c : c \in {"1", "2"})

CanonicalText(body) ==
    IF body.type = JSONBOID
    THEN JsonbToCString(body.val)
    ELSE JsonbToCString(Jsonb(JsonParse(body.val.chars)))

\* C1: a non-null body of a supported type and caller headers without a
\* content-type header give exactly one content-type header in the result,
\* whose value is the one inferred from the body type.
C1_ExactlyOneInferredContentType ==
    (pc = "done" /\ ~fcinfo.body.isnull /\ SupportedBody /\ ~CallerHasContentType)
        => /\ response.err = ""
           /\ ContentTypeCount(ResultElems) = 1
           /\ \A i \in 1..Len(ResultElems) :
                  NamedContentType(ResultElems[i]) => ResultElems[i].value = InferredValue

\* C2: when the caller's headers already name content-type (in any letter
\* case) and the body is non-null and supported, the returned headers are the
\* caller's headers, unchanged.
C2_CallerContentTypeKept ==
    (pc = "done" /\ ~fcinfo.body.isnull /\ SupportedBody /\ CallerHasContentType)
        => /\ response.err = ""
           /\ ~response.isnull.headers
           /\ response.headers = fcinfo.headers.val

C2_Witness ==
    /\ Returned
    /\ fcinfo.body.type = JSONBOID /\ ~fcinfo.body.isnull
    /\ \E i \in 1..Len(CallerElems) :
           /\ NamedContentType(CallerElems[i])
           /\ CallerElems[i].name.str[1] = "C"
    /\ response.headers = fcinfo.headers.val

\* C5: a json or jsonb body is replaced by the canonical text of its value,
\* with or without a caller content-type; the inferred header is text/json.
C5_JsonBodyReencoded ==
    (pc = "done" /\ ~fcinfo.body.isnull /\ fcinfo.body.type \in {JSONOID, JSONBOID})
        => /\ response.err = ""
           /\ ~response.isnull.body
           /\ response.body = Text(CanonicalText(fcinfo.body))
           /\ ~CallerHasContentType =>
                  \E i \in 1..Len(ResultElems) :
                      /\ NamedContentType(ResultElems[i])
                      /\ ResultElems[i].value = text_json

\* C6: the status of a returned record is 200 for a null status argument and
\* the caller's status otherwise; it is never null.
C6_StatusDefault ==
    Returned
        => /\ ~response.isnull.status
           /\ response.status = IF fcinfo.status.isnull THEN 200 ELSE fcinfo.status.val

C6_Witness ==
    /\ Returned
    /\ fcinfo.status.isnull
    /\ ~fcinfo.body.isnull
    /\ response.status = 200

\* C7: a non-null body of an unsupported type fails with an error, whatever
\* the status and the caller's headers.
C7_UnsupportedBodyFails ==
    (pc = "done" /\ ~fcinfo.body.isnull /\ ~SupportedBody) => response.err # ""

C7_Witness ==
    /\ Failed
    /\ fcinfo.body.type = INT4OID /\ ~fcinfo.body.isnull
    /\ CallerHasContentType
    /\ ~fcinfo.status.isnull

\* C8: a null body gives a record with a null body and the caller's headers
\* (null stays null, nothing is added), and no error for any body type.
C8_NullBodyAsIs ==
    (pc = "done" /\ fcinfo.body.isnull)
        => /\ response.err = ""
           /\ response.isnull.body
           /\ response.isnull.headers = fcinfo.headers.isnull
           /\ ~fcinfo.headers.isnull => response.headers = fcinfo.headers.val
           /\ ContentTypeCount(ResultElems) = ContentTypeCount(CallerElems)

C8_Witness ==
    /\ Returned
    /\ fcinfo.body.isnull /\ fcinfo.body.type = INT4OID
    /\ fcinfo.headers.isnull
    /\ response.isnull.headers /\ response.isnull.body

\* C9: when a content-type is inferred, the result is the caller's headers
\* (each at its position) followed by the new header, with append = false.
C9_InferredHeaderAppendedLast ==
    (pc = "done" /\ ~fcinfo.body.isnull /\ SupportedBody
        /\ ~has_content_type(headers_datum(fcinfo.headers)))
        => /\ response.err = ""
           /\ Len(ResultElems) = Len(CallerElems) + 1
           /\ \A i \in 1..Len(CallerElems) : ResultElems[i] = CallerElems[i]
           /\ Len(CallerElems) > 0 => response.headers.lb = fcinfo.headers.val.lb
           /\ ResultElems[Len(ResultElems)] =
                  Header(content_type_name, InferredValue, FALSE)

----------------------------------------------------------------------------
(* Properties of the validity trigger *)

\* the query is non-null, one statement, and valid with the request CTE
Acceptable(query) ==
    /\ ~query.isnull
    /\ query.text \in {"select * from request", "select 1"}

\* the row a write wants to store
Candidate ==
    IF trigger.data.event = "UPDATE"
    THEN trigger.data.tg_newtuple
    ELSE trigger.data.tg_trigtuple

Accepted == trigger.result.err = ""

C10_CandidateRowValidated ==
    (trigger.called /\ trigger.as_trigger)
        => (Accepted <=> Acceptable(Candidate.query))

----------------------------------------------------------------------------
(* Properties of the reload signal *)

====
